---------------------------- MODULE Spec2Model ----------------------------
(***************************************************************************)
(* A model of pytac's Lattice (src/pytac/lattice.py): the ordered element  *)
(* sequence with its queries, and the value-access layer that delegates to *)
(* a registered model and converts through the per-field UnitConv table.   *)
(*                                                                         *)
(* Every method of Lattice is one action.  An action runs the whole method *)
(* and leaves in `last` what the caller observes: the method, its          *)
(* arguments, the exception that escaped ("none" when it returned), the    *)
(* value returned and the calls made on collaborators.                     *)
(***************************************************************************)
EXTENDS Integers, Sequences, FiniteSets

VARIABLES
    lattice,    \* self._lattice: the list of element objects
    models,     \* self._models: model_type -> model object (Absent: no key)
    uc,         \* self._uc: field -> UnitConv object (Absent: no key)
    mdev,       \* per model object: its device registry, field -> device
    msp,        \* per model object: the setpoint it stores for each field
    added,      \* history: the elements passed to add_element, in call order
    last        \* the outcome of the last method call

vars == <<lattice, models, uc, mdev, msp, added, last>>

-----------------------------------------------------------------------------
(* Bounds of the model. *)

\* add_element is called while the lattice holds fewer elements than this.
MaxElems == 3
\* The list length at which CPython can no longer grow a list (MemoryError).
MaxMem == 5
\* Values handed to set_value and set_element_values are 1..MaxValue.
MaxValue == 2
\* set_element_values is handed sequences of at most this many values.
MaxValues == 3

-----------------------------------------------------------------------------
(* Python values. *)

NoneV == "None"           \* Python's None
Absent == "absent"        \* a key a dict does not hold

\* pytac.SP, pytac.RB, pytac.ENG, pytac.PHYS, pytac.LIVE, pytac.SIM
SP == "setpoint"
RB == "readback"
ENG == "engineering"
PHYS == "physics"
LIVE == "live"
SIM == "simulation"

Handles == {SP, RB}
\* The handles set_value is called with: nothing restricts the argument.
SetHandles == {SP, RB, NoneV}
Units == {ENG, PHYS}
ModelKeys == {LIVE, SIM}
Fields == {"x", "y"}
Values == 1..MaxValue

-----------------------------------------------------------------------------
(* Element objects.  An element is identified by its object identity; its  *)
(* length, family tags, cell and devices are attributes of the object.     *)

Elems == {"e1", "e2", "e3"}

Length(e) == CASE e = "e1" -> 1 [] e = "e2" -> 2 [] e = "e3" -> 3

\* element.families: a set of tags.  Nothing keeps None out of the set.
Families(e) ==
    CASE e = "e1" -> {"BPM"}
      [] e = "e2" -> {"BPM", "QUAD"}
      [] e = "e3" -> {"QUAD", NoneV}

Cell(e) == CASE e = "e1" -> "c1" [] e = "e2" -> "c2" [] e = "e3" -> "c1"

\* element.get_device(field): the device, or Absent where it raises KeyError.
ElemDevice(e, field) ==
    CASE e = "e1" /\ field = "x" -> "e1.x"
      [] e = "e2" /\ field = "x" -> "e2.x"
      [] e = "e2" /\ field = "y" -> "e2.y"
      [] e = "e3" /\ field = "y" -> "e3.y"
      [] OTHER -> Absent

\* element.get_value(field, handle): the value the element reports.
ElemValue(e, field, handle) == <<e, field, handle>>

FamilyArgs == {NoneV, "BPM", "QUAD"}
CellArgs == {NoneV, "c1", "c2"}

-----------------------------------------------------------------------------
(* Outcomes. *)

Outcome(op, args, exc, ret, calls) ==
    [op |-> op, args |-> args, exc |-> exc, ret |-> ret, calls |-> calls]

NoArgs == [none |-> TRUE]

-----------------------------------------------------------------------------
(* The element sequence. *)

\* __len__
LenOf(lat) == Len(lat)

\* __getitem__, for 0 <= n < len
GetItem(lat, n) == lat[n + 1]

\* A faulty add_element: the element is inserted at the front.
AppendElementAtFront(lat, element) == <<element>> \o lat

\* add_element: self._lattice.append(element)
AppendElement(lat, element) == Append(lat, element)

\* get_length: the sum of e.length over the list
RECURSIVE GetLength(_)
GetLength(lat) ==
    IF lat = <<>> THEN 0 ELSE Length(Head(lat)) + GetLength(Tail(lat))

\* get_s: scan by identity, summing the lengths before the first match.
RECURSIVE GetSLoop(_, _, _, _)
GetSLoop(lat, elem, i, s_pos) ==
    IF i > Len(lat)
    THEN [exc |-> "LatticeException", ret |-> NoneV]
    ELSE IF lat[i] # elem
         THEN GetSLoop(lat, elem, i + 1, s_pos + Length(lat[i]))
         ELSE [exc |-> "none", ret |-> s_pos]

\* A faulty get_s: the length is added before the identity test, so the
\* element's own length is counted.
GetSCountingItself(lat, elem) ==
    LET r == GetSLoop(lat, elem, 1, 0)
    IN  IF r.exc = "none" THEN [r EXCEPT !.ret = r.ret + Length(elem)] ELSE r

GetS(lat, elem) == GetSLoop(lat, elem, 1, 0)

\* get_elements, the loop of lines 239-241 over self._lattice.  `aliased`
\* says that `elements` is the list self._lattice itself (line 237), so an
\* append to `elements` is an append to the list being iterated: `lat` is
\* self._lattice, `elements` the other list when not aliased.
RECURSIVE FamilyLoop(_, _, _, _, _)
FamilyLoop(lat, elements, aliased, family, i) ==
    IF i > Len(lat)
    THEN [exc |-> "none", elements |-> IF aliased THEN lat ELSE elements,
          lattice |-> lat]
    ELSE IF family \in Families(lat[i])
         THEN IF aliased
              THEN IF Len(lat) >= MaxMem
                   THEN [exc |-> "MemoryError", elements |-> lat,
                         lattice |-> lat]
                   ELSE FamilyLoop(Append(lat, lat[i]), <<>>, TRUE,
                                   family, i + 1)
              ELSE FamilyLoop(lat, Append(elements, lat[i]), FALSE,
                              family, i + 1)
         ELSE FamilyLoop(lat, elements, aliased, family, i + 1)

\* The cell filter of lines 243-244: a new list.
CellFilter(elements, cell) ==
    LET InCell(e) == Cell(e) = cell
    IN  IF cell # NoneV THEN SelectSeq(elements, InCell) ELSE elements

\* get_elements(family, cell): what it returns or raises, and the list
\* self._lattice it leaves behind.
GetElements(lat, family, cell) ==
    LET r == FamilyLoop(lat, <<>>, family = NoneV, family, 1)
    IN  IF r.exc # "none"
        THEN [exc |-> r.exc, ret |-> NoneV, lattice |-> r.lattice]
        ELSE [exc |-> "none", ret |-> CellFilter(r.elements, cell),
              lattice |-> r.lattice]

\* get_all_families
RECURSIVE GetAllFamilies(_)
GetAllFamilies(lat) ==
    IF lat = <<>> THEN {}
    ELSE Families(Head(lat)) \cup GetAllFamilies(Tail(lat))


\* get_family_s: get_s of every element get_elements(family) returns.
GetFamilyS(lat, family) ==
    LET r == GetElements(lat, family, NoneV)
    IN  IF r.exc # "none"
        THEN r
        ELSE [exc |-> "none",
              ret |-> [i \in 1..Len(r.ret) |-> GetS(r.lattice, r.ret[i]).ret],
              lattice |-> r.lattice]

\* get_element_devices: the devices of the family's elements that have one
\* on the field; an element's KeyError is swallowed (lines 315-318).
GetElementDevices(lat, family, field) ==
    LET r == GetElements(lat, family, NoneV)
        HasDev(e) == ElemDevice(e, field) # Absent
    IN  IF r.exc # "none"
        THEN r
        ELSE [exc |-> "none",
              ret |-> LET els == SelectSeq(r.ret, HasDev)
                      IN  [i \in 1..Len(els) |-> ElemDevice(els[i], field)],
              lattice |-> r.lattice]

\* get_element_values, dtype None: element.get_value of every element.
GetElementValues(lat, family, field, handle) ==
    LET r == GetElements(lat, family, NoneV)
    IN  IF r.exc # "none"
        THEN r
        ELSE [exc |-> "none",
              ret |-> [i \in 1..Len(r.ret) |->
                          ElemValue(r.ret[i], field, handle)],
              lattice |-> r.lattice]

\* A faulty length check: only too many values are rejected.
CountMismatchTooManyOnly(elements, values) == Len(elements) < Len(values)

\* The length check of set_element_values, lines 375-378.
CountMismatch(elements, values) == Len(elements) # Len(values)

\* The calls of lines 379-380: element.set_value(field, value) over
\* zip(elements, values), each recorded as <<element, field, value>>.
ZipSetValue(elements, field, values) ==
    LET n == IF Len(elements) < Len(values) THEN Len(elements)
             ELSE Len(values)
    IN  [i \in 1..n |-> <<elements[i], field, values[i]>>]

\* set_element_values: the exception, the element.set_value calls made and
\* the list self._lattice left behind.
SetElementValues(lat, family, field, values) ==
    LET r == GetElements(lat, family, NoneV)
    IN  IF r.exc # "none"
        THEN [exc |-> r.exc, calls |-> <<>>, lattice |-> r.lattice]
        ELSE IF CountMismatch(r.ret, values)
             THEN [exc |-> "LatticeException", calls |-> <<>>,
                   lattice |-> r.lattice]
             ELSE [exc |-> "none",
                   calls |-> ZipSetValue(r.ret, field, values),
                   lattice |-> r.lattice]

\* The value sequences handed to set_element_values: of every length up to
\* MaxValues, neighbouring values different, starting at any value.
ValueSeqs ==
    {[i \in 1..n |-> ((i + k) % MaxValue) + 1] :
        n \in 0..MaxValues, k \in 1..MaxValue}

-----------------------------------------------------------------------------
(* The actions on the element sequence. *)

valueState == <<models, uc, mdev, msp>>

add_element ==
    /\ Len(lattice) < MaxElems
    /\ \E element \in Elems :
          /\ lattice' = AppendElement(lattice, element)
          /\ added' = Append(added, element)
          /\ last' = Outcome("add_element", [element |-> element], "none",
                             NoneV, <<>>)
    /\ UNCHANGED valueState

len ==
    /\ last' = Outcome("__len__", NoArgs, "none", LenOf(lattice), <<>>)
    /\ UNCHANGED <<lattice, added, valueState>>

getitem ==
    /\ \E n \in 0..(MaxElems - 1) :
          last' = IF n < Len(lattice)
                  THEN Outcome("__getitem__", [n |-> n], "none",
                               GetItem(lattice, n), <<>>)
                  ELSE Outcome("__getitem__", [n |-> n], "IndexError",
                               NoneV, <<>>)
    /\ UNCHANGED <<lattice, added, valueState>>

get_length ==
    /\ last' = Outcome("get_length", NoArgs, "none", GetLength(lattice), <<>>)
    /\ UNCHANGED <<lattice, added, valueState>>

get_s ==
    /\ \E elem \in Elems :
          LET r == GetS(lattice, elem)
          IN  last' = Outcome("get_s", [elem |-> elem], r.exc, r.ret, <<>>)
    /\ UNCHANGED <<lattice, added, valueState>>

get_elements ==
    /\ \E family \in FamilyArgs, cell \in CellArgs :
          LET r == GetElements(lattice, family, cell)
          IN  /\ lattice' = r.lattice
              /\ last' = Outcome("get_elements",
                                 [family |-> family, cell |-> cell],
                                 r.exc, r.ret, <<>>)
    /\ UNCHANGED <<added, valueState>>

get_all_families ==
    /\ last' = Outcome("get_all_families", NoArgs, "none",
                       GetAllFamilies(lattice), <<>>)
    /\ UNCHANGED <<lattice, added, valueState>>

get_family_s ==
    /\ \E family \in FamilyArgs :
          LET r == GetFamilyS(lattice, family)
          IN  /\ lattice' = r.lattice
              /\ last' = Outcome("get_family_s", [family |-> family],
                                 r.exc, r.ret, <<>>)
    /\ UNCHANGED <<added, valueState>>

get_element_devices ==
    /\ \E family \in FamilyArgs, field \in Fields :
          LET r == GetElementDevices(lattice, family, field)
          IN  /\ lattice' = r.lattice
              /\ last' = Outcome("get_element_devices",
                                 [family |-> family, field |-> field],
                                 r.exc, r.ret, <<>>)
    /\ UNCHANGED <<added, valueState>>

get_element_values ==
    /\ \E family \in FamilyArgs, field \in Fields, handle \in Handles :
          LET r == GetElementValues(lattice, family, field, handle)
          IN  /\ lattice' = r.lattice
              /\ last' = Outcome("get_element_values",
                                 [family |-> family, field |-> field,
                                  handle |-> handle],
                                 r.exc, r.ret, <<>>)
    /\ UNCHANGED <<added, valueState>>

set_element_values ==
    /\ \E family \in FamilyArgs, field \in Fields, values \in ValueSeqs :
          LET r == SetElementValues(lattice, family, field, values)
          IN  /\ lattice' = r.lattice
              /\ last' = Outcome("set_element_values",
                                 [family |-> family, field |-> field,
                                  values |-> values],
                                 r.exc, NoneV, r.calls)
    /\ UNCHANGED <<added, valueState>>

-----------------------------------------------------------------------------
(* The collaborators of the value layer: model objects, devices and        *)
(* UnitConv objects, by the capabilities Lattice uses.                     *)

\* Two model objects: a device model working in engineering units, whose
\* fields are those it holds a device for; and a simulation working in
\* physics units, with the field "x" built in.  A model reports a field it
\* lacks by FieldException or by a lookup error, as its implementation has
\* it: `miss` below is that error.
ModelObjs == {"dm", "sm"}
Devices == {"d1", "d2"}
UnitConvs == {"ucHalf", "ucShift"}

\* model.units
ModelUnits(m) == IF m = "dm" THEN ENG ELSE PHYS

BuiltinFields(m) == IF m = "dm" THEN {} ELSE {"x"}

ModelHasField(m, field) ==
    field \in BuiltinFields(m) \/ mdev[m][field] # Absent

MissingFieldErrors == {"KeyError", "FieldException"}

\* model.get_value(field, handle): the stored setpoint (the readback of an
\* ideal device follows its setpoint), or the model's missing-field error.
ModelGetValue(m, field, handle, miss) ==
    IF ModelHasField(m, field)
    THEN [exc |-> "none", ret |-> msp[m][field]]
    ELSE [exc |-> miss, ret |-> NoneV]

\* model.set_value(field, value): stores the value, or the model's
\* missing-field error; the new stored values.
ModelSetValue(m, field, value, miss) ==
    IF ModelHasField(m, field)
    THEN [exc |-> "none", msp |-> [msp EXCEPT ![m][field] = value]]
    ELSE [exc |-> miss, msp |-> msp]

\* The two conversions of a UnitConv object.  ucShift's are inverse to each
\* other; ucHalf's are not (halving an odd physics value loses a half).
EngToPhys(u, x) == IF u = "ucShift" THEN x + 1 ELSE 2 * x
PhysToEng(u, x) == IF u = "ucShift" THEN x - 1 ELSE x \div 2

\* UnitConv.convert(value, origin, target)
Convert(u, value, origin, target) ==
    IF origin = target THEN value
    ELSE IF origin = ENG THEN EngToPhys(u, value)
    ELSE PhysToEng(u, value)

-----------------------------------------------------------------------------
(* The value layer of Lattice. *)

\* set_model: self._models[model_type] = model
SetModel(model, model_type) == [models EXCEPT ![model_type] = model]

\* A faulty add_device: the self._uc entry is written before the LIVE model
\* is looked up.
AddDeviceUnitconvFirst(field, device, unitconv) ==
    IF models[LIVE] = Absent
    THEN [exc |-> "KeyError", mdev |-> mdev,
          uc |-> [uc EXCEPT ![field] = unitconv]]
    ELSE [exc |-> "none",
          mdev |-> [mdev EXCEPT ![models[LIVE]][field] = device],
          uc |-> [uc EXCEPT ![field] = unitconv]]

\* add_device: the LIVE model's add_device first, then the self._uc entry.
AddDevice(field, device, unitconv) ==
    IF models[LIVE] = Absent
    THEN [exc |-> "KeyError", mdev |-> mdev, uc |-> uc]
    ELSE [exc |-> "none",
          mdev |-> [mdev EXCEPT ![models[LIVE]][field] = device],
          uc |-> [uc EXCEPT ![field] = unitconv]]

\* get_device: self._models[pytac.LIVE].get_device(field)
GetDevice(field) ==
    IF models[LIVE] = Absent \/ mdev[models[LIVE]][field] = Absent
    THEN [exc |-> "KeyError", ret |-> NoneV]
    ELSE [exc |-> "none", ret |-> mdev[models[LIVE]][field]]

\* get_unitconv: self._uc[field]
GetUnitconv(field) ==
    IF uc[field] = Absent
    THEN [exc |-> "KeyError", ret |-> NoneV]
    ELSE [exc |-> "none", ret |-> uc[field]]

\* Faulty handlers of get_value: only FieldException is caught.
GetValueHandlersFieldOnly(exc) == exc

\* The handlers of get_value's try block, lines 134-138: what an exception
\* raised inside the block leaves get_value as.
GetValueHandlers(exc) ==
    CASE exc = "KeyError" -> "DeviceException"
      [] exc = "FieldException" -> "FieldException"
      [] OTHER -> exc

\* A faulty conversion of get_value: origin and target exchanged.
ConvertReadSwapped(u, value, m, units) ==
    Convert(u, value, units, ModelUnits(m))

\* The conversion of get_value, lines 132-133: from the model's units to
\* the units asked for.
ConvertRead(u, value, m, units) == Convert(u, value, ModelUnits(m), units)

\* The conversion of set_value, line 165: from the units given to the
\* model's units.
ConvertWrite(u, value, units, m) == Convert(u, value, units, ModelUnits(m))

\* The try block of get_value, lines 130-133, without its handlers.
GetValueBody(field, handle, units, model, miss) ==
    IF models[model] = Absent
    THEN [exc |-> "KeyError", ret |-> NoneV]
    ELSE LET m == models[model]
             v == ModelGetValue(m, field, handle, miss)
         IN  IF v.exc # "none"
             THEN [exc |-> v.exc, ret |-> NoneV]
             ELSE IF uc[field] = Absent
                  THEN [exc |-> "KeyError", ret |-> NoneV]
                  ELSE [exc |-> "none",
                        ret |-> ConvertRead(uc[field], v.ret, m, units)]

\* get_value
GetValue(field, handle, units, model, miss) ==
    LET r == GetValueBody(field, handle, units, model, miss)
    IN  [exc |-> GetValueHandlers(r.exc), ret |-> r.ret]

\* The handle check of set_value, line 157.
HandleRejected(handle) == handle # SP

\* The second try block of set_value, lines 164-170, for the resolved model
\* object m: the conversion, then the model's setter; calls records the
\* model.set_value calls made as <<model object, field, value>>.
\* Faulty handlers of set_value: the lookup error is not caught.
SetValueHandlersFieldOnly(exc) == exc

\* The handlers of set_value's second try block, lines 167-170.
SetValueHandlers(exc) ==
    CASE exc = "KeyError" -> "FieldException"
      [] exc = "FieldException" -> "FieldException"
      [] OTHER -> exc

\* The second try block of set_value, lines 165-166, without its handlers,
\* for the resolved model object m: the conversion, then the model's setter;
\* calls records the model.set_value calls made as <<model, field, value>>.
SetValueBody(m, field, value, units, miss) ==
    IF uc[field] = Absent
    THEN [exc |-> "KeyError", msp |-> msp, calls |-> <<>>]
    ELSE LET v == ConvertWrite(uc[field], value, units, m)
             w == ModelSetValue(m, field, v, miss)
         IN  [exc |-> w.exc, msp |-> w.msp, calls |-> << <<m, field, v>> >>]

\* A faulty set_value: the model is resolved before the handle is checked.
SetValueModelFirst(field, value, handle, units, model, miss) ==
    IF models[model] = Absent
    THEN [exc |-> "DeviceException", msp |-> msp, calls |-> <<>>]
    ELSE IF HandleRejected(handle)
         THEN [exc |-> "HandleException", msp |-> msp, calls |-> <<>>]
         ELSE LET r == SetValueBody(models[model], field, value, units, miss)
              IN  [r EXCEPT !.exc = SetValueHandlers(r.exc)]

\* set_value
SetValue(field, value, handle, units, model, miss) ==
    IF HandleRejected(handle)
    THEN [exc |-> "HandleException", msp |-> msp, calls |-> <<>>]
    ELSE IF models[model] = Absent
         THEN [exc |-> "DeviceException", msp |-> msp, calls |-> <<>>]
         ELSE LET r == SetValueBody(models[model], field, value, units, miss)
              IN  [r EXCEPT !.exc = SetValueHandlers(r.exc)]

-----------------------------------------------------------------------------
(* The actions of the value layer. *)

seqState == <<lattice, added>>

\* The device model is registered as LIVE, the simulation as SIM.
set_model ==
    /\ \E p \in {<<"dm", LIVE>>, <<"sm", SIM>>} :
          /\ models' = SetModel(p[1], p[2])
          /\ last' = Outcome("set_model",
                             [model |-> p[1], model_type |-> p[2]],
                             "none", NoneV, <<>>)
    /\ UNCHANGED <<uc, mdev, msp, seqState>>

add_device ==
    /\ \E field \in Fields,
          p \in {<<"d1", "ucHalf">>, <<"d2", "ucShift">>} :
          LET r == AddDevice(field, p[1], p[2])
          IN  /\ mdev' = r.mdev
              /\ uc' = r.uc
              /\ last' = Outcome("add_device",
                                 [field |-> field, device |-> p[1],
                                  uc |-> p[2]],
                                 r.exc, NoneV, <<>>)
    /\ UNCHANGED <<models, msp, seqState>>

get_device ==
    /\ \E field \in Fields :
          LET r == GetDevice(field)
          IN  last' = Outcome("get_device", [field |-> field], r.exc, r.ret,
                              <<>>)
    /\ UNCHANGED <<models, uc, mdev, msp, seqState>>

get_unitconv ==
    /\ \E field \in Fields :
          LET r == GetUnitconv(field)
          IN  last' = Outcome("get_unitconv", [field |-> field], r.exc,
                              r.ret, <<>>)
    /\ UNCHANGED <<models, uc, mdev, msp, seqState>>

get_value ==
    /\ \E field \in Fields, handle \in Handles, units \in Units,
          model \in ModelKeys, miss \in MissingFieldErrors :
          LET r == GetValue(field, handle, units, model, miss)
          IN  last' = Outcome("get_value",
                              [field |-> field, handle |-> handle,
                               units |-> units, model |-> model],
                              r.exc, r.ret, <<>>)
    /\ UNCHANGED <<models, uc, mdev, msp, seqState>>

set_value ==
    /\ \E field \in Fields, value \in Values, handle \in SetHandles,
          units \in Units, model \in ModelKeys,
          miss \in MissingFieldErrors :
          LET r == SetValue(field, value, handle, units, model, miss)
          IN  /\ msp' = r.msp
              /\ last' = Outcome("set_value",
                                 [field |-> field, value |-> value,
                                  handle |-> handle, units |-> units,
                                  model |-> model],
                                 r.exc, NoneV, r.calls)
    /\ UNCHANGED <<models, uc, mdev, seqState>>

-----------------------------------------------------------------------------
(* Specifications. *)

\* __init__
Init ==
    /\ lattice = <<>>
    /\ models = [k \in ModelKeys |-> Absent]
    /\ uc = [f \in Fields |-> Absent]
    /\ mdev = [m \in ModelObjs |-> [f \in Fields |-> Absent]]
    /\ msp = [m \in ModelObjs |-> [f \in Fields |-> 0]]
    /\ added = <<>>
    /\ last = Outcome("__init__", NoArgs, "none", NoneV, <<>>)

\* A lattice that is only built and read through the sequence protocol.
NextSeq == add_element \/ len \/ getitem

SpecSeq == Init /\ [][NextSeq]_vars

\* Every operation on the element sequence.
Next ==
    \/ add_element
    \/ len
    \/ getitem
    \/ get_length
    \/ get_s
    \/ get_elements
    \/ get_all_families
    \/ get_family_s
    \/ get_element_devices
    \/ get_element_values
    \/ set_element_values

Spec == Init /\ [][Next]_vars

NextValues ==
    \/ set_model
    \/ add_device
    \/ get_device
    \/ get_unitconv
    \/ get_value
    \/ set_value

SpecValues == Init /\ [][NextValues]_vars

-----------------------------------------------------------------------------
(* Properties of the element sequence. *)

Range(seq) == {seq[i] : i \in 1..Len(seq)}

\* C1: after any sequence of add_element calls on a new Lattice, len(lattice)
\* is the number of add_element calls made and lattice[i] is the element
\* passed to the (i+1)-th call, for every index i from 0 to len(lattice)-1.
C1_SequenceProtocol ==
    /\ (last.op = "__len__" => last.ret = Len(added))
    /\ (last.op = "__getitem__" /\ last.args.n < Len(added)
           => last.exc = "none" /\ last.ret = added[last.args.n + 1])

\* Three different elements were added and the middle one was indexed.
C1_Witness ==
    /\ last.op = "__getitem__"
    /\ last.args.n = 1
    /\ Len(added) = 3
    /\ added[1] # added[2]
    /\ added[2] # added[3]
    /\ last.ret = added[2]

\* C2 as stated: in a non-empty lattice built by add_element calls, get_s of
\* the first element is 0, get_s of the last element is get_length() minus
\* that element's length, and get_s of an element not in the lattice raises
\* LatticeException.
C2_AsStated ==
    (last.op = "get_s" /\ lattice # <<>> /\ lattice = added) =>
        LET elem == last.args.elem
        IN  /\ elem = lattice[1] => last.exc = "none" /\ last.ret = 0
            /\ elem = lattice[Len(lattice)] =>
                  /\ last.exc = "none"
                  /\ last.ret = GetLength(lattice) - Length(elem)
            /\ elem \notin Range(lattice) => last.exc = "LatticeException"

\* The index of the first occurrence of elem in lat.
FirstIndex(lat, elem) ==
    CHOOSE i \in 1..Len(lat) :
        lat[i] = elem /\ \A j \in 1..(i - 1) : lat[j] # elem

\* C2, amended: get_s of an element of the lattice is the sum of the lengths
\* before its first occurrence: 0 for the first element, and get_length()
\* minus the element's length for the last element when that object occurs
\* at no earlier position; get_s of an element not in the lattice raises
\* LatticeException.
C2_GetSFirstOccurrence ==
    (last.op = "get_s" /\ lattice # <<>>) =>
        LET elem == last.args.elem
            n == Len(lattice)
        IN  /\ elem = lattice[1] => last.exc = "none" /\ last.ret = 0
            /\ elem \in Range(lattice) =>
                  /\ last.exc = "none"
                  /\ last.ret =
                        GetLength(SubSeq(lattice, 1,
                                         FirstIndex(lattice, elem) - 1))
            /\ (elem = lattice[n] /\ \A j \in 1..(n - 1) : lattice[j] # elem)
                  => last.ret = GetLength(lattice) - Length(elem)
            /\ elem \notin Range(lattice) => last.exc = "LatticeException"

\* get_s was asked for the last of three elements, which occurs only there,
\* behind an element that occurs twice.
C2_Witness ==
    /\ last.op = "get_s"
    /\ Len(lattice) = 3
    /\ lattice[1] = lattice[2]
    /\ last.args.elem = lattice[3]
    /\ lattice[3] # lattice[1]
    /\ last.exc = "none"
    /\ last.ret = GetLength(lattice) - Length(lattice[3])
    /\ last.ret > 0

\* The elements of lat that match family and cell, in lattice order, each
\* position once: what the documentation of get_elements describes.
Matching(lat, family, cell) ==
    LET Match(e) == /\ (family = NoneV \/ family \in Families(e))
                    /\ (cell = NoneV \/ Cell(e) = cell)
    IN  SelectSeq(lat, Match)

\* C5: get_elements(family, cell) returns, in lattice order and with each
\* lattice position at most once, exactly the matching elements: every
\* element when family is None, the elements tagged F when family is F,
\* restricted to the cell when a cell is given.
C5_GetElementsReturnsMatching ==
    [][last'.op = "get_elements" =>
          /\ last'.exc = "none"
          /\ last'.ret = Matching(lattice, last'.args.family,
                                  last'.args.cell)]_vars

\* C6: set_element_values(family, field, values), where get_elements(family)
\* returns: with a number of values different from the number of elements of
\* the family it raises LatticeException and calls set_value on no element;
\* with the same number it calls element.set_value(field, values[i]) exactly
\* once for the i-th element of the family, in lattice order, the value
\* unconverted.
C6_SetElementValues ==
    (/\ last.op = "set_element_values"
     /\ GetElements(lattice, last.args.family, NoneV).exc = "none") =>
        LET els == Matching(lattice, last.args.family, NoneV)
            values == last.args.values
        IN  IF Len(values) # Len(els)
            THEN last.exc = "LatticeException" /\ last.calls = <<>>
            ELSE /\ last.exc = "none"
                 /\ last.calls =
                       [i \in 1..Len(els) |->
                           <<els[i], last.args.field, values[i]>>]

\* Two different values were written to a family of two elements of a
\* lattice that holds a third element outside the family.
C6_Witness ==
    /\ last.op = "set_element_values"
    /\ last.args.family = "BPM"
    /\ last.exc = "none"
    /\ Len(lattice) = 3
    /\ Len(last.calls) = 2
    /\ last.calls[1][3] # last.calls[2][3]

\* C10: only add_element changes the element sequence: every other method,
\* get_elements with any family argument and any tag sets included,
\* terminates (no MemoryError ends it) and leaves self._lattice as it was.
C10_OnlyAddElementChangesSequence ==
    [][last'.op # "add_element" =>
          lattice' = lattice /\ last'.exc # "MemoryError"]_vars

-----------------------------------------------------------------------------
(* Properties of the value layer. *)

\* get_value was called with a registered model key and a field the model
\* has a value for, and the lattice holds no UnitConv for the field.
GetValueWithoutUnitconv ==
    /\ last.op = "get_value"
    /\ models[last.args.model] # Absent
    /\ ModelHasField(models[last.args.model], last.args.field)
    /\ uc[last.args.field] = Absent

\* C3 as stated: in get_value, with the model key registered and the model
\* returning a value for the field, a missing UnitConv entry is not caught
\* and propagates as a raw lookup failure (KeyError), not re-wrapped as
\* DeviceException or FieldException.
C3_AsStated == GetValueWithoutUnitconv => last.exc = "KeyError"

\* C3, amended: in get_value, with the model key registered and the model
\* returning a value for the field, the lookup failure of a missing UnitConv
\* entry is caught by the try block's KeyError handler and get_value raises
\* DeviceException; no raw KeyError leaves get_value.
C3_MissingUnitconvIsDeviceException ==
    /\ GetValueWithoutUnitconv => last.exc = "DeviceException"
    /\ last.op = "get_value" => last.exc # "KeyError"

\* The simulation, which has "x" built in, was asked for "x" before any
\* UnitConv was added for it.
C3_Witness ==
    /\ GetValueWithoutUnitconv
    /\ last.args.model = SIM
    /\ last.args.field = "x"
    /\ last.exc = "DeviceException"

\* C4: set_value with any handle other than the setpoint handle raises
\* HandleException whatever the field, units and model key are, makes no
\* call to a model's set_value and leaves every model's stored values as
\* they were.
C4_NonSetpointHandleRejected ==
    [][(last'.op = "set_value" /\ last'.args.handle # SP) =>
          /\ last'.exc = "HandleException"
          /\ last'.calls = <<>>
          /\ msp' = msp]_vars

\* A readback-handle write was rejected although the model is registered,
\* has the field and the field has a UnitConv, after an earlier write had
\* stored a setpoint in that model.
C4_Witness ==
    /\ last.op = "set_value"
    /\ last.args.handle = RB
    /\ last.exc = "HandleException"
    /\ models[last.args.model] # Absent
    /\ ModelHasField(models[last.args.model], last.args.field)
    /\ uc[last.args.field] # Absent
    /\ msp[models[last.args.model]][last.args.field] # 0

\* The integers the conversions are compared on.
ConversionDomain == (0 - 2 * MaxValue - 2)..(2 * MaxValue + 2)

\* The two conversions of u are inverse to each other.
Inverse(u) ==
    \A x \in ConversionDomain :
        /\ PhysToEng(u, EngToPhys(u, x)) = x
        /\ EngToPhys(u, PhysToEng(u, x)) = x

\* C7: set_value(field, v, SP, U, M) that succeeds, followed by
\* get_value(field, SP, U, M), returns
\* convert(convert(v, U -> M.units), M.units -> U), which is v when the
\* UnitConv's two conversions are inverse to each other.
C7_RoundTrip ==
    [][(/\ last.op = "set_value"
        /\ last.exc = "none"
        /\ last'.op = "get_value"
        /\ last'.args.handle = SP
        /\ last'.args.field = last.args.field
        /\ last'.args.units = last.args.units
        /\ last'.args.model = last.args.model) =>
          LET u == uc[last.args.field]
              mu == ModelUnits(models[last.args.model])
              U == last.args.units
              v == last.args.value
          IN  /\ last'.exc = "none"
              /\ last'.ret = Convert(u, Convert(u, v, U, mu), mu, U)
              /\ Inverse(u) => last'.ret = v]_vars

\* The simulation (physics units) holds 4 for a field whose UnitConv doubles
\* engineering values, and get_value in engineering units returned 2.
C7_Witness ==
    /\ last.op = "get_value"
    /\ last.exc = "none"
    /\ last.args.handle = SP
    /\ last.args.model = SIM
    /\ last.args.units = ENG
    /\ models[SIM] = "sm"
    /\ uc[last.args.field] = "ucHalf"
    /\ msp["sm"][last.args.field] = 4
    /\ last.ret = 2

\* C8: add_device(field, device, uc) with no model registered under LIVE
\* fails with KeyError and leaves the unit-conversion table unchanged; with a
\* LIVE model registered it stores the device in that model and uc in the
\* table, so get_device(field) returns device and get_unitconv(field)
\* returns uc.
C8_AddDevice ==
    [][\A field \in Fields, device \in Devices, unitconv \in UnitConvs :
          (/\ last'.op = "add_device"
           /\ last'.args = [field |-> field, device |-> device,
                            uc |-> unitconv]) =>
              IF models[LIVE] = Absent
              THEN last'.exc = "KeyError" /\ uc' = uc
              ELSE /\ last'.exc = "none"
                   /\ GetDevice(field)' = [exc |-> "none", ret |-> device]
                   /\ GetUnitconv(field)' =
                         [exc |-> "none", ret |-> unitconv]]_vars

\* A device and UnitConv were added for a field that already had others.
C8_Witness ==
    /\ last.op = "add_device"
    /\ last.exc = "none"
    /\ last.args.device = "d2"
    /\ mdev[models[LIVE]][last.args.field] = "d2"
    /\ uc[last.args.field] = "ucShift"
    /\ \E f \in Fields : f # last.args.field /\ uc[f] = "ucHalf"

\* C9: set_value with the setpoint handle: an unregistered model key raises
\* DeviceException, also when the field has no UnitConv; otherwise a field
\* without UnitConv, or one the model's setter reports missing, raises
\* FieldException; no raw lookup error leaves set_value, and without a
\* UnitConv entry the model's set_value is not called.
C9_SetValueErrorPrecedence ==
    (last.op = "set_value" /\ last.args.handle = SP) =>
        LET m == models[last.args.model]
            field == last.args.field
        IN  /\ m = Absent => last.exc = "DeviceException"
            /\ (m # Absent /\ uc[field] = Absent)
                  => last.exc = "FieldException"
            /\ (m # Absent /\ uc[field] # Absent /\ ~ModelHasField(m, field))
                  => last.exc = "FieldException"
            /\ (m # Absent /\ uc[field] # Absent /\ ModelHasField(m, field))
                  => last.exc = "none"
            /\ last.exc # "KeyError"
            /\ uc[field] = Absent => last.calls = <<>>

\* The setter of a registered model was called for a field it lacks, the
\* field having a UnitConv, and set_value raised FieldException.
C9_Witness ==
    /\ last.op = "set_value"
    /\ last.args.handle = SP
    /\ models[last.args.model] # Absent
    /\ uc[last.args.field] # Absent
    /\ ~ModelHasField(models[last.args.model], last.args.field)
    /\ Len(last.calls) = 1
    /\ last.exc = "FieldException"

=============================================================================
